---- MODULE Spec2Model ----
(***************************************************************************)
(* LawBridge protocol parser (backup/lawbridge_reference.py): the byte     *)
(* driven frame parser, the Document edit model and the refresh handling   *)
(* in its two modes, BUFFER and STREAM.                                    *)
(*                                                                         *)
(* A character is its code point (an integer), a byte string is a sequence *)
(* of integers 0..255.  Python's None is NONE (-1) for an optional integer *)
(* or command byte, <<>> for an optional Timecode, and the optional        *)
(* scratch Document is a sequence of at most one Document.                 *)
(***************************************************************************)
EXTENDS Integers, Sequences, FiniteSets

STX == 2
ETX == 3

NONE == -1

(* Command letters (their ASCII codes). *)
CMD_P == 80
CMD_N == 78
CMD_F == 70
CMD_T == 84
CMD_R == 82
CMD_E == 69
CMD_D == 68
CMD_K == 75

(* CMD_LEN: data bytes after the command letter, before ETX. *)
CMD_LEN ==
    [c \in {CMD_P, CMD_N, CMD_F, CMD_T, CMD_R, CMD_E, CMD_D, CMD_K} |->
        CASE c = CMD_P -> 2
          [] c = CMD_N -> 1
          [] c = CMD_F -> 1
          [] c = CMD_T -> 4
          [] c = CMD_R -> 8
          [] c = CMD_E -> 0
          [] c = CMD_D -> 0
          [] c = CMD_K -> 0]

(* U+FFFD, what bytes.decode('ascii', errors='replace') gives for a byte   *)
(* that is not ASCII.                                                      *)
REPLACEMENT_CHAR == 65533

----------------------------------------------------------------------------
(* Bounds of the model. *)

(* Longest text a Document is driven to by text bytes. *)
MaxLen == 3
(* Most T frames in one run of the profile "ranges". *)
MaxTimecodes == 2
(* Most refreshes (R frames dispatched in NORMAL) in one run. *)
MaxRefresh == 1
(* Most P, N, F and K frames in one run; in the profile "frames" T frames *)
(* count as well.                                                        *)
MaxLatch == 1
(* Longest payload fed to a frame with an unknown command byte. *)
MaxUnknownLen == 1
(* Most bytes of chunk b fed after feed(a || b) has raised. *)
MaxTail == 2
(* Most keys of the time index of a transcript "resolve" starts from. *)
MaxResolveKeys == 2

----------------------------------------------------------------------------
(* Timecode *)

to_frames(tc) == ((tc[1] * 60 + tc[2]) * 60 + tc[3]) * 30 + tc[4]

from_bytes(b) == <<b[1], b[2], b[3], b[4]>>

----------------------------------------------------------------------------
(* Document *)

NewDocument ==
    [chars |-> <<>>, insertion |-> 0, time_index |-> <<>>,
     current_page |-> NONE, current_line |-> NONE, current_format |-> NONE,
     prevent_save |-> FALSE]

Min(a, b) == IF a < b THEN a ELSE b
Max(a, b) == IF a > b THEN a ELSE b

set_insertion(d, pos) ==
    [d EXCEPT !.insertion = Max(0, Min(pos, Len(d.chars)))]

insert_text(d, s) ==
    IF s = <<>> THEN d
    ELSE [d EXCEPT
            !.chars = SubSeq(d.chars, 1, d.insertion) \o s
                        \o SubSeq(d.chars, d.insertion + 1, Len(d.chars)),
            !.insertion = d.insertion + Len(s)]

(* delete_backspace that removes the character and leaves the cursor. *)
delete_backspace_keeps_cursor(d, lower_bound) ==
    IF d.insertion > lower_bound /\ d.insertion > 0
    THEN [d EXCEPT
            !.chars = SubSeq(d.chars, 1, d.insertion - 1)
                        \o SubSeq(d.chars, d.insertion + 1, Len(d.chars))]
    ELSE d

delete_backspace(d, lower_bound) ==
    IF d.insertion > lower_bound /\ d.insertion > 0
    THEN [d EXCEPT
            !.chars = SubSeq(d.chars, 1, d.insertion - 1)
                        \o SubSeq(d.chars, d.insertion + 1, Len(d.chars)),
            !.insertion = d.insertion - 1]
    ELSE d

delete_range(d, start, end) ==
    LET s == Max(0, Min(start, Len(d.chars)))
        e == Max(0, Min(end, Len(d.chars)))
    IN  IF e > s
        THEN [d EXCEPT
                !.chars = SubSeq(d.chars, 1, s) \o SubSeq(d.chars, e + 1, Len(d.chars)),
                !.insertion = s]
        ELSE d

length(d) == Len(d.chars)

text(d) == d.chars

on_page(d, page_le) == [d EXCEPT !.current_page = page_le[1] + 256 * page_le[2]]

on_line(d, line_b) == [d EXCEPT !.current_line = line_b[1]]

on_format(d, fmt_b) == [d EXCEPT !.current_format = fmt_b[1]]

(* on_timecode that starts a new index holding the new entry alone. *)
on_timecode_clears(d, tc) ==
    [d EXCEPT !.time_index = [k \in {to_frames(tc)} |-> d.insertion]]

on_timecode(d, tc) ==
    [d EXCEPT !.time_index =
        [k \in (DOMAIN d.time_index) \cup {to_frames(tc)} |->
            IF k = to_frames(tc) THEN d.insertion ELSE d.time_index[k]]]

on_prevent_save(d) == [d EXCEPT !.prevent_save = TRUE]

----------------------------------------------------------------------------
(* LawBridgeParser *)

NewParser(mode) ==
    [state |-> "NORMAL", refresh_mode |-> mode, doc |-> NewDocument,
     refresh_start_tc |-> <<>>, refresh_end_tc |-> <<>>,
     refresh_start_pos |-> NONE, refresh_end_pos |-> NONE,
     refresh_buffer |-> <<>>, refresh_lower_bound |-> 0,
     frame_buf |-> <<>>, in_cmd |-> FALSE, expected_len |-> NONE,
     current_cmd |-> NONE]

(* What a handler returns: the parser it leaves and the error it raised. *)
Ok(p) == [p |-> p, err |-> "none"]
Raise(p, e) == [p |-> p, err |-> e]

_enter_frame(p) ==
    [p EXCEPT !.in_cmd = TRUE, !.current_cmd = NONE, !.expected_len = NONE,
              !.frame_buf = <<>>]

_exit_frame(p) ==
    [p EXCEPT !.in_cmd = FALSE, !.current_cmd = NONE, !.expected_len = NONE,
              !.frame_buf = <<>>]

(* The Document the handlers of P, N, F, T and K write to. *)
_refresh_target_is_buffer(p) ==
    p.state = "REFRESH" /\ p.refresh_mode = "BUFFER"

_refresh_target_doc(p) ==
    IF p.state # "REFRESH" THEN p.doc
    ELSE IF p.refresh_mode = "BUFFER" THEN p.refresh_buffer[1]
    ELSE p.doc

(* p with d stored as the Document _refresh_target_doc(p) names. *)
WithTarget(p, d) ==
    IF _refresh_target_is_buffer(p)
    THEN [p EXCEPT !.refresh_buffer = <<d>>]
    ELSE [p EXCEPT !.doc = d]

_on_page(p, payload) == WithTarget(p, on_page(_refresh_target_doc(p), payload))

_on_line(p, payload) == WithTarget(p, on_line(_refresh_target_doc(p), payload))

_on_format(p, payload) == WithTarget(p, on_format(_refresh_target_doc(p), payload))

_on_timecode(p, payload) ==
    WithTarget(p, on_timecode(_refresh_target_doc(p), from_bytes(payload)))

(* _on_delete that passes lower_bound=0 in STREAM mode too. *)
_on_delete_no_bound(p) ==
    IF p.state = "NORMAL"
    THEN [p EXCEPT !.doc = delete_backspace(p.doc, 0)]
    ELSE IF p.refresh_mode = "BUFFER"
    THEN [p EXCEPT !.refresh_buffer = <<delete_backspace(p.refresh_buffer[1], 0)>>]
    ELSE [p EXCEPT !.doc = delete_backspace(p.doc, 0)]

(* _on_delete that ignores D while a scratch Document is the target. *)
_on_delete_skips_scratch(p) ==
    IF p.state = "NORMAL"
    THEN [p EXCEPT !.doc = delete_backspace(p.doc, 0)]
    ELSE IF p.refresh_mode = "BUFFER"
    THEN p
    ELSE [p EXCEPT !.doc = delete_backspace(p.doc, p.refresh_lower_bound)]

_on_delete(p) ==
    IF p.state = "NORMAL"
    THEN [p EXCEPT !.doc = delete_backspace(p.doc, 0)]
    ELSE IF p.refresh_mode = "BUFFER"
    THEN [p EXCEPT !.refresh_buffer = <<delete_backspace(p.refresh_buffer[1], 0)>>]
    ELSE [p EXCEPT !.doc = delete_backspace(p.doc, p.refresh_lower_bound)]

(* _on_prevent_save without "self.doc.prevent_save = target.prevent_save". *)
_on_prevent_save_no_sync(p) ==
    WithTarget(p, on_prevent_save(_refresh_target_doc(p)))

_on_prevent_save(p) ==
    IF p.state = "NORMAL"
    THEN [p EXCEPT !.doc = on_prevent_save(p.doc)]
    ELSE LET q == WithTarget(p, on_prevent_save(_refresh_target_doc(p)))
         IN  [q EXCEPT !.doc.prevent_save = _refresh_target_doc(q).prevent_save]

(* sorted(S): the elements of a finite set of integers in increasing order. *)
RECURSIVE sorted(_)
sorted(S) ==
    IF S = {} THEN <<>>
    ELSE LET m == CHOOSE x \in S : \A y \in S : x <= y
         IN  <<m>> \o sorted(S \ {m})

(* The loop "for k in keys: if k >= start_frames: ...; break": the index  *)
(* of the first key at or after f, from position i on; 0 if there is none. *)
RECURSIVE FirstAtOrAfter(_, _, _)
FirstAtOrAfter(keys, f, i) ==
    IF i > Len(keys) THEN 0
    ELSE IF keys[i] >= f THEN i
    ELSE FirstAtOrAfter(keys, f, i + 1)

(* [k for k in keys if ...] keeps the order of keys, so max() and min() of *)
(* it are its last and first element.                                      *)
max(ks) == ks[Len(ks)]
min(ks) == ks[1]

(* _resolve_time_range that does not swap the frame counts when the end *)
(* timecode is before the start timecode.                               *)
_resolve_time_range_no_swap(p, start_tc, end_tc) ==
    LET start_frames == to_frames(start_tc)
        end_frames == to_frames(end_tc)
        ti == p.doc.time_index
        keys == sorted(DOMAIN ti)
        i == FirstAtOrAfter(keys, start_frames, 1)
        before_keys == SelectSeq(keys, LAMBDA k : k <= start_frames)
        s_pos == IF i # 0 THEN ti[keys[i]]
                 ELSE IF before_keys # <<>> THEN ti[max(before_keys)]
                 ELSE 0
        before_or_at == SelectSeq(keys, LAMBDA k : k <= end_frames)
        after_keys == SelectSeq(keys, LAMBDA k : k >= end_frames)
        e_pos == IF before_or_at # <<>> THEN ti[max(before_or_at)]
                 ELSE IF after_keys # <<>> THEN ti[min(after_keys)]
                 ELSE length(p.doc)
        s_c == Max(0, Min(s_pos, length(p.doc)))
        e_c == Max(0, Min(e_pos, length(p.doc)))
    IN  IF DOMAIN ti = {} THEN <<0, length(p.doc)>>
        ELSE IF e_c < s_c THEN <<e_c, s_c>>
        ELSE <<s_c, e_c>>

_resolve_time_range(p, start_tc, end_tc) ==
    LET sf0 == to_frames(start_tc)
        ef0 == to_frames(end_tc)
        start_frames == IF ef0 < sf0 THEN ef0 ELSE sf0
        end_frames == IF ef0 < sf0 THEN sf0 ELSE ef0
        ti == p.doc.time_index
        keys == sorted(DOMAIN ti)
        i == FirstAtOrAfter(keys, start_frames, 1)
        before_keys == SelectSeq(keys, LAMBDA k : k <= start_frames)
        s_pos == IF i # 0 THEN ti[keys[i]]
                 ELSE IF before_keys # <<>> THEN ti[max(before_keys)]
                 ELSE 0
        before_or_at == SelectSeq(keys, LAMBDA k : k <= end_frames)
        after_keys == SelectSeq(keys, LAMBDA k : k >= end_frames)
        e_pos == IF before_or_at # <<>> THEN ti[max(before_or_at)]
                 ELSE IF after_keys # <<>> THEN ti[min(after_keys)]
                 ELSE length(p.doc)
        s_c == Max(0, Min(s_pos, length(p.doc)))
        e_c == Max(0, Min(e_pos, length(p.doc)))
    IN  IF DOMAIN ti = {} THEN <<0, length(p.doc)>>
        ELSE IF e_c < s_c THEN <<e_c, s_c>>
        ELSE <<s_c, e_c>>

(* begin_refresh that leaves the cursor to delete_range in STREAM mode. *)
begin_refresh_no_seek(p, start_tc, end_tc, r) ==
    LET q == [p EXCEPT !.refresh_start_tc = start_tc,
                       !.refresh_end_tc = end_tc,
                       !.refresh_start_pos = r[1],
                       !.refresh_end_pos = r[2]]
    IN  IF p.refresh_mode = "BUFFER"
        THEN Ok([q EXCEPT !.refresh_buffer = <<set_insertion(NewDocument, 0)>>,
                          !.state = "REFRESH"])
        ELSE Ok([q EXCEPT !.doc = delete_range(p.doc, r[1], r[2]),
                          !.refresh_lower_bound = r[1],
                          !.state = "REFRESH"])

(* _on_refresh_begin from "self.refresh_start_tc = start_tc" on: r is the  *)
(* pair _resolve_time_range returned.                                      *)
begin_refresh(p, start_tc, end_tc, r) ==
    LET s_pos == r[1]
        e_pos == r[2]
        q == [p EXCEPT !.refresh_start_tc = start_tc,
                       !.refresh_end_tc = end_tc,
                       !.refresh_start_pos = s_pos,
                       !.refresh_end_pos = e_pos]
    IN  IF p.refresh_mode = "BUFFER"
        THEN Ok([q EXCEPT !.refresh_buffer = <<set_insertion(NewDocument, 0)>>,
                          !.state = "REFRESH"])
        ELSE Ok([q EXCEPT !.doc = set_insertion(delete_range(p.doc, s_pos, e_pos), s_pos),
                          !.refresh_lower_bound = s_pos,
                          !.state = "REFRESH"])

(* _on_refresh_begin once start_tc and end_tc are parsed. *)
resolve_and_begin(p, start_tc, end_tc) ==
    begin_refresh(p, start_tc, end_tc, _resolve_time_range(p, start_tc, end_tc))

(* _on_refresh_begin without the check for a refresh in progress. *)
_on_refresh_begin_nested(p, payload) ==
    resolve_and_begin(p, from_bytes(SubSeq(payload, 1, 4)),
                       from_bytes(SubSeq(payload, 5, 8)))

_on_refresh_begin(p, payload) ==
    IF p.state = "REFRESH"
    THEN Raise(p, "nested")
    ELSE resolve_and_begin(p, from_bytes(SubSeq(payload, 1, 4)),
                            from_bytes(SubSeq(payload, 5, 8)))

(* The reset without "self._refresh_lower_bound = 0". *)
ResetRefresh_keeps_bound(p) ==
    [p EXCEPT !.state = "NORMAL",
              !.refresh_start_tc = <<>>, !.refresh_end_tc = <<>>,
              !.refresh_start_pos = NONE, !.refresh_end_pos = NONE,
              !.refresh_buffer = <<>>]

(* The reset at the end of _on_refresh_end. *)
ResetRefresh(p) ==
    [p EXCEPT !.state = "NORMAL",
              !.refresh_start_tc = <<>>, !.refresh_end_tc = <<>>,
              !.refresh_start_pos = NONE, !.refresh_end_pos = NONE,
              !.refresh_buffer = <<>>, !.refresh_lower_bound = 0]

(* _on_refresh_end that inserts the scratch text without deleting the   *)
(* resolved range first.                                                *)
_on_refresh_end_no_delete(p) ==
    IF p.state # "REFRESH" THEN p
    ELSE IF p.refresh_mode = "BUFFER"
    THEN LET buf_text == text(p.refresh_buffer[1])
             d2 == set_insertion(p.doc, p.refresh_start_pos)
             d3 == insert_text(d2, buf_text)
             d4 == [d3 EXCEPT !.prevent_save = p.refresh_buffer[1].prevent_save]
         IN  ResetRefresh([p EXCEPT !.doc = d4])
    ELSE ResetRefresh([p EXCEPT !.doc = set_insertion(p.doc, length(p.doc))])

(* _on_refresh_end that does not copy prevent_save from the scratch. *)
_on_refresh_end_keeps_flag(p) ==
    IF p.state # "REFRESH" THEN p
    ELSE IF p.refresh_mode = "BUFFER"
    THEN LET buf_text == text(p.refresh_buffer[1])
             d1 == delete_range(p.doc, p.refresh_start_pos, p.refresh_end_pos)
             d2 == set_insertion(d1, p.refresh_start_pos)
             d3 == insert_text(d2, buf_text)
         IN  ResetRefresh([p EXCEPT !.doc = d3])
    ELSE ResetRefresh([p EXCEPT !.doc = set_insertion(p.doc, length(p.doc))])

_on_refresh_end(p) ==
    IF p.state # "REFRESH" THEN p
    ELSE IF p.refresh_mode = "BUFFER"
    THEN LET buf_text == text(p.refresh_buffer[1])
             d1 == delete_range(p.doc, p.refresh_start_pos, p.refresh_end_pos)
             d2 == set_insertion(d1, p.refresh_start_pos)
             d3 == insert_text(d2, buf_text)
             d4 == [d3 EXCEPT !.prevent_save = p.refresh_buffer[1].prevent_save]
         IN  ResetRefresh([p EXCEPT !.doc = d4])
    ELSE ResetRefresh([p EXCEPT !.doc = set_insertion(p.doc, length(p.doc))])

(* bs.decode('ascii'), falling back to errors='replace', of one byte. *)
decode(b) == IF b < 128 THEN <<b>> ELSE <<REPLACEMENT_CHAR>>

(* _insert_text_bytes that writes to the main Document in every mode. *)
_insert_text_bytes_main(p, b) ==
    [p EXCEPT !.doc = insert_text(p.doc, decode(b))]

_insert_text_bytes(p, b) ==
    IF p.state = "NORMAL"
    THEN [p EXCEPT !.doc = insert_text(p.doc, decode(b))]
    ELSE IF p.refresh_mode = "BUFFER"
    THEN [p EXCEPT !.refresh_buffer = <<insert_text(p.refresh_buffer[1], decode(b))>>]
    ELSE [p EXCEPT !.doc = insert_text(p.doc, decode(b))]

(* _handle_unknown that inserts the command byte as text. *)
_handle_unknown_as_text(p, cmd, payload) == _insert_text_bytes(p, cmd)

_handle_unknown(p, cmd, payload) == p

(* _dispatch_cmd that sends D to the handler of E. *)
_dispatch_cmd_d_ends(p, cmd, payload) ==
    CASE cmd = CMD_P -> Ok(_on_page(p, payload))
      [] cmd = CMD_N -> Ok(_on_line(p, payload))
      [] cmd = CMD_F -> Ok(_on_format(p, payload))
      [] cmd = CMD_T -> Ok(_on_timecode(p, payload))
      [] cmd = CMD_D -> Ok(_on_refresh_end(p))
      [] cmd = CMD_K -> Ok(_on_prevent_save(p))
      [] cmd = CMD_R -> _on_refresh_begin(p, payload)
      [] cmd = CMD_E -> Ok(_on_refresh_end(p))
      [] OTHER -> Ok(_handle_unknown(p, cmd, payload))

_dispatch_cmd(p, cmd, payload) ==
    CASE cmd = CMD_P -> Ok(_on_page(p, payload))
      [] cmd = CMD_N -> Ok(_on_line(p, payload))
      [] cmd = CMD_F -> Ok(_on_format(p, payload))
      [] cmd = CMD_T -> Ok(_on_timecode(p, payload))
      [] cmd = CMD_D -> Ok(_on_delete(p))
      [] cmd = CMD_K -> Ok(_on_prevent_save(p))
      [] cmd = CMD_R -> _on_refresh_begin(p, payload)
      [] cmd = CMD_E -> Ok(_on_refresh_end(p))
      [] OTHER -> Ok(_handle_unknown(p, cmd, payload))

(* _exit_frame reached even when _dispatch_cmd raised. *)
then_exit_frame_always(r) == [p |-> _exit_frame(r.p), err |-> r.err]

(* "self._dispatch_cmd(...); self._exit_frame()": r is what _dispatch_cmd  *)
(* returned; _exit_frame is not reached when it raised.                    *)
then_exit_frame(r) == IF r.err # "none" THEN r ELSE Ok(_exit_frame(r.p))

(* feed_byte that dispatches on any byte after the payload, ETX or not. *)
feed_byte_no_etx_check(p, b) ==
    IF ~p.in_cmd
    THEN IF b = STX THEN Ok(_enter_frame(p))
         ELSE Ok(_insert_text_bytes(p, b))
    ELSE IF p.current_cmd = NONE
    THEN IF b \notin DOMAIN CMD_LEN
         THEN Ok([p EXCEPT !.current_cmd = b, !.expected_len = NONE])
         ELSE Ok([p EXCEPT !.current_cmd = b, !.expected_len = CMD_LEN[b]])
    ELSE IF p.expected_len = NONE
    THEN IF b = ETX
         THEN Ok(_exit_frame(_handle_unknown(p, p.current_cmd, p.frame_buf)))
         ELSE Ok([p EXCEPT !.frame_buf = Append(p.frame_buf, b)])
    ELSE IF Len(p.frame_buf) < p.expected_len
    THEN Ok([p EXCEPT !.frame_buf = Append(p.frame_buf, b)])
    ELSE then_exit_frame(_dispatch_cmd(p, p.current_cmd, p.frame_buf))

(* feed_byte that does not accumulate an ETX as payload. *)
feed_byte_drops_etx_payload(p, b) ==
    IF ~p.in_cmd
    THEN IF b = STX THEN Ok(_enter_frame(p))
         ELSE Ok(_insert_text_bytes(p, b))
    ELSE IF p.current_cmd = NONE
    THEN IF b \notin DOMAIN CMD_LEN
         THEN Ok([p EXCEPT !.current_cmd = b, !.expected_len = NONE])
         ELSE Ok([p EXCEPT !.current_cmd = b, !.expected_len = CMD_LEN[b]])
    ELSE IF p.expected_len = NONE
    THEN IF b = ETX
         THEN Ok(_exit_frame(_handle_unknown(p, p.current_cmd, p.frame_buf)))
         ELSE Ok([p EXCEPT !.frame_buf = Append(p.frame_buf, b)])
    ELSE IF Len(p.frame_buf) < p.expected_len
    THEN IF b = ETX THEN Ok(p)
         ELSE Ok([p EXCEPT !.frame_buf = Append(p.frame_buf, b)])
    ELSE IF b # ETX
    THEN Raise(p, "framing")
    ELSE then_exit_frame(_dispatch_cmd(p, p.current_cmd, p.frame_buf))

(* feed_byte that closes the frame before it raises the framing error. *)
feed_byte_resets_on_error(p, b) ==
    IF ~p.in_cmd
    THEN IF b = STX THEN Ok(_enter_frame(p))
         ELSE Ok(_insert_text_bytes(p, b))
    ELSE IF p.current_cmd = NONE
    THEN IF b \notin DOMAIN CMD_LEN
         THEN Ok([p EXCEPT !.current_cmd = b, !.expected_len = NONE])
         ELSE Ok([p EXCEPT !.current_cmd = b, !.expected_len = CMD_LEN[b]])
    ELSE IF p.expected_len = NONE
    THEN IF b = ETX
         THEN Ok(_exit_frame(_handle_unknown(p, p.current_cmd, p.frame_buf)))
         ELSE Ok([p EXCEPT !.frame_buf = Append(p.frame_buf, b)])
    ELSE IF Len(p.frame_buf) < p.expected_len
    THEN Ok([p EXCEPT !.frame_buf = Append(p.frame_buf, b)])
    ELSE IF b # ETX
    THEN Raise(_exit_frame(p), "framing")
    ELSE then_exit_frame(_dispatch_cmd(p, p.current_cmd, p.frame_buf))

(* One iteration of the loop of feed: the byte b. *)
feed_byte(p, b) ==
    IF ~p.in_cmd
    THEN IF b = STX THEN Ok(_enter_frame(p))
         ELSE Ok(_insert_text_bytes(p, b))
    ELSE IF p.current_cmd = NONE
    THEN IF b \notin DOMAIN CMD_LEN
         THEN Ok([p EXCEPT !.current_cmd = b, !.expected_len = NONE])
         ELSE Ok([p EXCEPT !.current_cmd = b, !.expected_len = CMD_LEN[b]])
    ELSE IF p.expected_len = NONE
    THEN IF b = ETX
         THEN Ok(_exit_frame(_handle_unknown(p, p.current_cmd, p.frame_buf)))
         ELSE Ok([p EXCEPT !.frame_buf = Append(p.frame_buf, b)])
    ELSE IF Len(p.frame_buf) < p.expected_len
    THEN Ok([p EXCEPT !.frame_buf = Append(p.frame_buf, b)])
    ELSE IF b # ETX
    THEN Raise(p, "framing")
    ELSE then_exit_frame(_dispatch_cmd(p, p.current_cmd, p.frame_buf))

(* feed that starts every call outside any frame. *)
feed_begin_resets_frame(p) == _exit_frame(p)

(* What a call of feed does before its loop: nothing, the frame state is  *)
(* kept from the call before.                                             *)
feed_begin(p) == p

----------------------------------------------------------------------------
(* The environment: the bytes a producer feeds.  A run follows one of two  *)
(* profiles.  "frames" feeds every command, unknown commands and malformed *)
(* frames, with the single timecode 00:00:00:00; "ranges" feeds text, T,   *)
(* R, E and D with the timecodes 00:00:00:00 and 00:00:01:00, so that a    *)
(* refresh resolves to a proper sub-range of the text.  "resolve" feeds    *)
(* one R frame to a parser that already holds a transcript.                *)

Profiles == {"frames", "ranges"}

(* Bytes fed outside a frame, besides STX: a letter, a stray ETX, a byte   *)
(* that is not ASCII.                                                      *)
TextBytes(profile) ==
    CASE profile = "frames" -> {65, ETX}
      [] profile = "ranges" -> {65, 200}
      [] OTHER -> {}

(* Command bytes that are not in CMD_LEN. *)
UnknownCmdBytes == {90, ETX}

(* Command bytes fed after STX. *)
CommandBytes(profile) ==
    CASE profile = "frames" -> DOMAIN CMD_LEN \cup UnknownCmdBytes
      [] profile = "ranges" -> {CMD_T, CMD_R, CMD_E, CMD_D}
      [] OTHER -> {CMD_R}

(* Payload bytes of a Timecode [HH,MM,SS,FF], by position. *)
TcBytes(profile) ==
    CASE profile = "frames" -> <<{0}, {0}, {0}, {0}>>
      [] profile = "ranges" -> <<{0}, {0}, {0, 1}, {0}>>
      [] OTHER -> <<{0}, {0}, {0, 1}, {0, 1}>>

(* Payload bytes of P (little endian word), N and F. *)
PageBytes == <<{ETX}, {STX}>>
LineBytes == <<{7}>>
FormatBytes == <<{9}>>

(* Bytes fed where a known command expects its ETX. *)
EtxPositionBytes(profile) ==
    IF profile = "frames" THEN {ETX, STX, 65} ELSE {ETX}

(* Bytes fed as the payload of an unknown command. *)
UnknownPayloadBytes == {65, STX}

PayloadBytes(profile, cmd, i) ==
    CASE cmd = CMD_P -> PageBytes[i]
      [] cmd = CMD_N -> LineBytes[i]
      [] cmd = CMD_F -> FormatBytes[i]
      [] cmd = CMD_T -> TcBytes(profile)[i]
      [] cmd = CMD_R -> TcBytes(profile)[((i - 1) % 4) + 1]

(* The length of the main text once the refresh in progress has ended. *)
LengthAfterRefresh(p) ==
    IF p.state = "REFRESH" /\ p.refresh_mode = "BUFFER"
    THEN length(p.doc) - (p.refresh_end_pos - p.refresh_start_pos)
            + length(p.refresh_buffer[1])
    ELSE length(p.doc)

(* The bytes the producer may feed next to parser p, c counting what it    *)
(* has fed so far.                                                         *)
Offered(p, c) ==
    IF ~p.in_cmd
    THEN (IF c.profile = "resolve" /\ p.state = "REFRESH" THEN {} ELSE {STX})
            \cup (IF LengthAfterRefresh(p) < MaxLen THEN TextBytes(c.profile) ELSE {})
    ELSE IF p.current_cmd = NONE
    THEN {b \in CommandBytes(c.profile) :
            /\ b \in {CMD_P, CMD_N, CMD_F, CMD_K} => c.latches < MaxLatch
            /\ b = CMD_T =>
                  IF c.profile = "ranges"
                  THEN c.timecodes < MaxTimecodes /\ p.state = "NORMAL"
                  ELSE c.latches < MaxLatch
            /\ b = CMD_R => (p.state = "REFRESH" \/ c.refreshes < MaxRefresh)}
    ELSE IF p.expected_len = NONE
    THEN {ETX} \cup (IF Len(p.frame_buf) < MaxUnknownLen
                     THEN UnknownPayloadBytes ELSE {})
    ELSE IF Len(p.frame_buf) < p.expected_len
    THEN PayloadBytes(c.profile, p.current_cmd, Len(p.frame_buf) + 1)
    ELSE EtxPositionBytes(c.profile)

(* Does byte b, fed to p, reach _dispatch_cmd? *)
Dispatches(p, b) ==
    /\ p.in_cmd
    /\ p.current_cmd # NONE
    /\ p.expected_len # NONE
    /\ Len(p.frame_buf) >= p.expected_len
    /\ b = ETX

Count(p, c, b) ==
    [c EXCEPT
        !.refreshes = @ + (IF Dispatches(p, b) /\ p.current_cmd = CMD_R
                              /\ p.state = "NORMAL" THEN 1 ELSE 0),
        !.latches = @ + (IF /\ p.in_cmd /\ p.current_cmd = NONE
                            /\ \/ b \in {CMD_P, CMD_N, CMD_F, CMD_K}
                               \/ b = CMD_T /\ c.profile # "ranges"
                         THEN 1 ELSE 0),
        !.timecodes = @ + (IF /\ p.in_cmd /\ p.current_cmd = NONE
                              /\ b = CMD_T /\ c.profile = "ranges"
                           THEN 1 ELSE 0)]

----------------------------------------------------------------------------
(* The state: the parser; ev, what the last iteration of feed's loop did;  *)
(* fed, the producer's profile and counters; and, to compare feed(a) then  *)
(* feed(b) with feed(a || b), a second parser (whole) and the split        *)
(* (chunk).                                                                *)

VARIABLES parser, ev, fed, whole, chunk

vars == <<parser, ev, fed, whole, chunk>>

(* The refresh E ends: the stored range, the length of the main text and   *)
(* of the scratch text when E is dispatched.                               *)
RefreshEnded(p) ==
    <<p.refresh_start_pos, p.refresh_end_pos, length(p.doc),
      IF p.refresh_mode = "BUFFER" THEN length(p.refresh_buffer[1]) ELSE 0>>

(* The record of one iteration: the byte, the error raised, the command    *)
(* that reached _dispatch_cmd, and the refresh an E ended.                 *)
Event(p, b, err) ==
    [byte |-> b,
     err |-> err,
     cmd |-> IF Dispatches(p, b) THEN p.current_cmd ELSE NONE,
     ended |-> IF Dispatches(p, b) /\ p.current_cmd = CMD_E /\ p.state = "REFRESH"
               THEN RefreshEnded(p) ELSE <<>>]

NoEvent == [byte |-> NONE, err |-> "none", cmd |-> NONE, ended |-> <<>>]

NoWhole == [p |-> NewParser("BUFFER"), stopped |-> FALSE]
NoChunk == [n |-> 0, stopped |-> FALSE, a_raised |-> FALSE, in_frame |-> FALSE,
            tail |-> 0]

Init ==
    /\ \E mode \in {"BUFFER", "STREAM"} : parser = NewParser(mode)
    /\ ev = NoEvent
    /\ \E profile \in Profiles :
          fed = [profile |-> profile, refreshes |-> 0, latches |-> 0, timecodes |-> 0]
    /\ whole = NoWhole
    /\ chunk = NoChunk

(* One iteration of feed's loop has processed byte b and left r. *)
Iterated(b, r) ==
    /\ parser' = r.p
    /\ ev' = Event(parser, b, r.err)
    /\ fed' = Count(parser, fed, b)
    /\ UNCHANGED <<whole, chunk>>

(* feed processes byte b: one iteration of its loop. *)
Step(b) ==
    /\ b \in Offered(parser, fed)
    /\ Iterated(b, feed_byte(parser, b))

EnterFrame == ~parser.in_cmd /\ Step(STX)

TextByte == ~parser.in_cmd /\ \E b \in TextBytes(fed.profile) : Step(b)

CommandByte ==
    /\ parser.in_cmd /\ parser.current_cmd = NONE
    /\ \E b \in CommandBytes(fed.profile) : Step(b)

UnknownPayloadByte ==
    /\ parser.in_cmd /\ parser.current_cmd # NONE /\ parser.expected_len = NONE
    /\ \E b \in UnknownPayloadBytes : Step(b)

UnknownEnd ==
    /\ parser.in_cmd /\ parser.current_cmd # NONE /\ parser.expected_len = NONE
    /\ Step(ETX)

PayloadByte ==
    /\ parser.in_cmd /\ parser.current_cmd # NONE /\ parser.expected_len # NONE
    /\ Len(parser.frame_buf) < parser.expected_len
    /\ \E b \in PayloadBytes(fed.profile, parser.current_cmd, Len(parser.frame_buf) + 1) :
          Step(b)

MissingEtx ==
    /\ parser.in_cmd /\ parser.current_cmd # NONE /\ parser.expected_len # NONE
    /\ Len(parser.frame_buf) >= parser.expected_len
    /\ \E b \in EtxPositionBytes(fed.profile) \ {ETX} : Step(b)

Dispatch == Dispatches(parser, ETX) /\ Step(ETX)

Next ==
    \/ EnterFrame
    \/ TextByte
    \/ CommandByte
    \/ UnknownPayloadByte
    \/ UnknownEnd
    \/ PayloadByte
    \/ MissingEtx
    \/ Dispatch

Spec == Init /\ [][Next]_vars

----------------------------------------------------------------------------
(* Range resolution on its own: the parser holds a transcript (a text and  *)
(* a time index, whose offsets may be stale) and the producer feeds one R  *)
(* frame.                                                                  *)

RECURSIVE Letters(_)
Letters(n) == IF n = 0 THEN <<>> ELSE Append(Letters(n - 1), 65)

(* The frame counts of the timecodes "resolve" feeds. *)
ResolveFrames ==
    {to_frames(<<hh, mm, ss, ff>>) :
        hh \in TcBytes("resolve")[1], mm \in TcBytes("resolve")[2],
        ss \in TcBytes("resolve")[3], ff \in TcBytes("resolve")[4]}

(* Time indexes of at most MaxResolveKeys keys; an offset was the cursor   *)
(* when its T frame was dispatched, and the text may have shrunk since.    *)
TimeIndexes ==
    UNION {[K -> 0 .. MaxLen + 1] :
            K \in {S \in SUBSET ResolveFrames : Cardinality(S) <= MaxResolveKeys}}

InitResolve ==
    /\ \E mode \in {"BUFFER", "STREAM"}, n \in 0 .. MaxLen, ti \in TimeIndexes :
          parser = [NewParser(mode) EXCEPT
                      !.doc = [NewDocument EXCEPT !.chars = Letters(n),
                                                  !.insertion = n,
                                                  !.time_index = ti]]
    /\ ev = NoEvent
    /\ fed = [profile |-> "resolve", refreshes |-> 0, latches |-> 0, timecodes |-> 0]
    /\ whole = NoWhole
    /\ chunk = NoChunk

NextResolve ==
    \/ EnterFrame
    \/ CommandByte
    \/ PayloadByte
    \/ Dispatch

SpecResolve == InitResolve /\ [][NextResolve]_vars

----------------------------------------------------------------------------
(* Chunking: the bytes s fed so far go to two parsers, to `whole` by one   *)
(* call feed(s) and to `parser` by feed(a) then feed(b), where a is what   *)
(* was fed before Split.  A call that raises drops the rest of its chunk.  *)

InitChunk ==
    /\ \E mode \in {"BUFFER", "STREAM"} : parser = NewParser(mode)
    /\ ev = NoEvent
    /\ \E profile \in Profiles :
          fed = [profile |-> profile, refreshes |-> 0, latches |-> 0, timecodes |-> 0]
    /\ whole = [p |-> feed_begin(parser), stopped |-> FALSE]
    /\ chunk = [NoChunk EXCEPT !.n = 1]

(* Byte b of s has gone to both: rc is what the iteration of the chunked *)
(* call left, rw what the iteration of feed(s) left; a call that has     *)
(* raised processes nothing.                                             *)
ChunkIterated(b, rc, rw) ==
    /\ parser' = IF chunk.stopped THEN parser ELSE rc.p
    /\ ev' = IF chunk.stopped THEN ev ELSE Event(parser, b, rc.err)
    /\ fed' = IF chunk.stopped THEN fed ELSE Count(parser, fed, b)
    /\ whole' = IF whole.stopped THEN whole
                ELSE [p |-> rw.p, stopped |-> rw.err # "none"]
    /\ chunk' = [chunk EXCEPT
                    !.stopped = @ \/ rc.err # "none",
                    !.tail = IF whole.stopped THEN @ + 1 ELSE @]

(* The next byte of s: each call processes it unless it has raised. *)
ChunkFeed ==
    \E b \in Offered(parser, fed) :
        /\ chunk.n \in {1, 2}
        /\ ~(chunk.stopped /\ whole.stopped)
        /\ whole.stopped => chunk.tail < MaxTail
        /\ ChunkIterated(b, feed_byte(parser, b), feed_byte(whole.p, b))

(* feed(a) has returned or raised; feed(b) is called. *)
Split ==
    /\ chunk.n = 1
    /\ parser' = feed_begin(parser)
    /\ chunk' = [chunk EXCEPT !.n = 2, !.stopped = FALSE,
                              !.a_raised = chunk.stopped,
                              !.in_frame = parser.in_cmd]
    /\ UNCHANGED <<ev, fed, whole>>

NextChunk ==
    \/ ChunkFeed
    \/ Split

SpecChunk == InitChunk /\ [][NextChunk]_vars

----------------------------------------------------------------------------
(* Two modes: the same bytes go to a BUFFER-mode parser (`parser`) and to  *)
(* a STREAM-mode parser (`whole.p`).  The bytes are an error-free sequence *)
(* with one refresh, which ends when the E of that refresh is dispatched.  *)

InitModes ==
    /\ parser = NewParser("BUFFER")
    /\ ev = NoEvent
    /\ \E profile \in Profiles :
          fed = [profile |-> profile, refreshes |-> 0, latches |-> 0, timecodes |-> 0]
    /\ whole = [p |-> NewParser("STREAM"), stopped |-> FALSE]
    /\ chunk = NoChunk

(* Byte b has gone to both parsers without error: rb is what the          *)
(* iteration left of the BUFFER-mode parser, rs of the STREAM-mode one.   *)
ModesIterated(b, rb, rs) ==
    /\ rb.err = "none"
    /\ rs.err = "none"
    /\ ChunkIterated(b, rb, rs)

(* The next byte of the sequence, until the refresh has ended. *)
ModesFeed ==
    \E b \in Offered(parser, fed) :
        /\ ~(fed.refreshes > 0 /\ parser.state = "NORMAL")
        /\ ModesIterated(b, feed_byte(parser, b), feed_byte(whole.p, b))

NextModes == ModesFeed

SpecModes == InitModes /\ [][NextModes]_vars

----------------------------------------------------------------------------
(* Properties. *)

BufferRefresh(p) == p.state = "REFRESH" /\ p.refresh_mode = "BUFFER"
StreamRefresh(p) == p.state = "REFRESH" /\ p.refresh_mode = "STREAM"

(* The Documents of p: the main one and, while it exists, the scratch. *)
Documents(p) == <<p.doc>> \o p.refresh_buffer

(* The refresh bookkeeping of p. *)
Bookkeeping(p) ==
    <<p.state, p.refresh_start_tc, p.refresh_end_tc, p.refresh_start_pos,
      p.refresh_end_pos, p.refresh_buffer, p.refresh_lower_bound>>

C2_CursorInvariant ==
    \A i \in 1 .. Len(Documents(parser)) :
        /\ 0 <= Documents(parser)[i].insertion
        /\ Documents(parser)[i].insertion <= Len(Documents(parser)[i].chars)

(* A D frame has been dispatched during a BUFFER refresh: the scratch     *)
(* still holds text, its cursor at the end, and the main Document holds   *)
(* text.                                                                  *)
C2_Witness ==
    /\ ev.cmd = CMD_D /\ BufferRefresh(parser)
    /\ Len(parser.refresh_buffer[1].chars) > 0
    /\ parser.refresh_buffer[1].insertion = Len(parser.refresh_buffer[1].chars)
    /\ Len(parser.doc.chars) > 0

(* C3: in BUFFER mode the step that dispatches R leaves the main Document *)
(* as it is, and from then until E is dispatched no byte changes its      *)
(* chars, cursor, time index, page, line or format; prevent_save changes  *)
(* only in a step that dispatches K.                                      *)
C3_BufferAtomicity ==
    [][ /\ (parser.refresh_mode = "BUFFER" /\ ev'.cmd = CMD_R) =>
              parser'.doc = parser.doc
        /\ (BufferRefresh(parser) /\ ev'.cmd # CMD_E) =>
              /\ parser'.doc =
                    [parser.doc EXCEPT !.prevent_save = parser'.doc.prevent_save]
              /\ parser'.doc.prevent_save # parser.doc.prevent_save =>
                    ev'.cmd = CMD_K
      ]_vars

(* A text byte has gone to the scratch of a BUFFER refresh while the main *)
(* Document holds text.                                                   *)
C3_Witness ==
    /\ BufferRefresh(parser) /\ ev.byte = 65 /\ ev.cmd = NONE /\ ~parser.in_cmd
    /\ Len(parser.refresh_buffer[1].chars) > 0
    /\ Len(parser.doc.chars) > 0

(* C4: the step that dispatches E in a BUFFER refresh with stored range   *)
(* (start_pos, end_pos) and scratch text c makes the main text            *)
(* old[0:start_pos] || c || old[end_pos:], of length                      *)
(* len(old) - (end_pos - start_pos) + len(c), with the cursor at          *)
(* start_pos + len(c); if the main time index is empty the new text is c. *)
C4_BufferRefreshResult ==
    [][ (BufferRefresh(parser) /\ ev'.cmd = CMD_E) =>
            LET old == parser.doc.chars
                s == parser.refresh_start_pos
                e == parser.refresh_end_pos
                c == parser.refresh_buffer[1].chars
            IN  /\ parser'.doc.chars =
                        SubSeq(old, 1, s) \o c \o SubSeq(old, e + 1, Len(old))
                /\ Len(parser'.doc.chars) = Len(old) - (e - s) + Len(c)
                /\ parser'.doc.insertion = s + Len(c)
                /\ DOMAIN parser.doc.time_index = {} => parser'.doc.chars = c
      ]_vars

(* E has ended a BUFFER refresh whose range was a proper, non-empty part  *)
(* of the text (text before it and after it) and whose scratch held text. *)
C4_Witness ==
    /\ ev.cmd = CMD_E /\ parser.refresh_mode = "BUFFER" /\ ev.ended # <<>>
    /\ 0 < ev.ended[1] /\ ev.ended[1] < ev.ended[2] /\ ev.ended[2] < ev.ended[3]
    /\ ev.ended[4] > 0

(* C5: in a STREAM refresh lower_bound <= cursor <= length() after every  *)
(* byte; a D dispatched with the cursor at lower_bound changes nothing;   *)
(* and neither the R that begins the refresh nor any byte up to and       *)
(* including E changes the characters before lower_bound.                 *)
C5_StreamLowerBound ==
    [][ /\ StreamRefresh(parser') =>
              /\ parser'.refresh_lower_bound <= parser'.doc.insertion
              /\ parser'.doc.insertion <= Len(parser'.doc.chars)
        /\ (StreamRefresh(parser) /\ ev'.cmd = CMD_D
                /\ parser.doc.insertion = parser.refresh_lower_bound) =>
              parser'.doc = parser.doc
        /\ StreamRefresh(parser) =>
              SubSeq(parser'.doc.chars, 1, parser.refresh_lower_bound)
                 = SubSeq(parser.doc.chars, 1, parser.refresh_lower_bound)
        /\ (parser.state = "NORMAL" /\ StreamRefresh(parser')) =>
              /\ parser'.refresh_lower_bound = parser'.refresh_start_pos
              /\ SubSeq(parser'.doc.chars, 1, parser'.refresh_lower_bound)
                    = SubSeq(parser.doc.chars, 1, parser'.refresh_lower_bound)
      ]_vars

(* A D has been dispatched in a STREAM refresh and the cursor is at a     *)
(* lower bound that has text before it and after it.                      *)
C5_Witness ==
    /\ ev.cmd = CMD_D /\ StreamRefresh(parser)
    /\ parser.refresh_lower_bound > 0
    /\ parser.doc.insertion = parser.refresh_lower_bound
    /\ Len(parser.doc.chars) > parser.doc.insertion

(* C6: the state goes from NORMAL to REFRESH only in a step that          *)
(* dispatches R without error and from REFRESH to NORMAL only in a step   *)
(* that dispatches E; an E dispatched in NORMAL leaves the main Document  *)
(* and the refresh bookkeeping as they are.                               *)
C6_RefreshStateMachine ==
    [][ /\ (parser.state = "NORMAL" /\ parser'.state = "REFRESH") =>
              (ev'.cmd = CMD_R /\ ev'.err = "none")
        /\ (parser.state = "REFRESH" /\ parser'.state = "NORMAL") =>
              (ev'.cmd = CMD_E /\ ev'.err = "none")
        /\ (parser.state = "NORMAL" /\ ev'.cmd = CMD_E) =>
              /\ parser'.doc = parser.doc
              /\ Bookkeeping(parser') = Bookkeeping(parser)
      ]_vars

(* An E frame has been dispatched in NORMAL, before any refresh, on a     *)
(* Document that holds text and a latched value.                          *)
C6_Witness ==
    /\ ev.cmd = CMD_E /\ fed.refreshes = 0 /\ parser.state = "NORMAL"
    /\ Len(parser.doc.chars) > 0
    /\ fed.latches > 0

(* C7: a step that dispatches R while the state is REFRESH raises the     *)
(* nested-refresh error and leaves the main Document, the scratch, the    *)
(* stored range, lower_bound and the state as they are.                   *)
C7_NestedRefreshRejected ==
    [][ (parser.state = "REFRESH" /\ ev'.cmd = CMD_R) =>
            /\ ev'.err = "nested"
            /\ parser'.doc = parser.doc
            /\ parser'.refresh_buffer = parser.refresh_buffer
            /\ parser'.refresh_start_pos = parser.refresh_start_pos
            /\ parser'.refresh_end_pos = parser.refresh_end_pos
            /\ parser'.refresh_lower_bound = parser.refresh_lower_bound
            /\ parser'.state = "REFRESH"
      ]_vars

(* A nested R has been rejected in a refresh over a Document with text.   *)
C7_Witness ==
    /\ ev.err = "nested" /\ ev.cmd = CMD_R /\ parser.state = "REFRESH"
    /\ Len(parser.doc.chars) > 0

(* C8: when a recognized command has its L payload bytes and the next     *)
(* byte is not ETX, that byte raises the framing error, dispatches        *)
(* nothing and leaves every Document and the refresh state as they are.   *)
C8_FramingError ==
    [][ ( /\ parser.in_cmd
          /\ parser.current_cmd \in DOMAIN CMD_LEN
          /\ Len(parser.frame_buf) = CMD_LEN[parser.current_cmd]
          /\ ev'.byte # ETX ) =>
            /\ ev'.err = "framing"
            /\ Documents(parser') = Documents(parser)
            /\ Bookkeeping(parser') = Bookkeeping(parser)
      ]_vars

(* A framing error has been raised in a D frame on a Document with text:  *)
(* the D is pending and has deleted nothing.                              *)
C8_Witness ==
    /\ ev.err = "framing" /\ parser.current_cmd = CMD_D
    /\ parser.doc.insertion > 0

(* C9: no character 0x02 or 0x03 is ever in the main or the scratch       *)
(* Document.                                                              *)
C9_StxEtxNeverText ==
    \A i \in 1 .. Len(Documents(parser)) :
        \A j \in 1 .. Len(Documents(parser)[i].chars) :
            Documents(parser)[i].chars[j] \notin {STX, ETX}

(* Range resolution as C10 states it: ti the main time index, n the       *)
(* length of the main text, payload the eight bytes of the R frame.       *)
FrameCount(payload, i) ==
    ((payload[i] * 60 + payload[i + 1]) * 60 + payload[i + 2]) * 30 + payload[i + 3]

Least(S) == CHOOSE k \in S : \A j \in S : k <= j
Greatest(S) == CHOOSE k \in S : \A j \in S : k >= j
Clamp(x, n) == IF x < 0 THEN 0 ELSE IF x > n THEN n ELSE x

StatedRange(ti, n, payload) ==
    LET f1 == FrameCount(payload, 1)
        f2 == FrameCount(payload, 5)
        start_frames == IF f2 < f1 THEN f2 ELSE f1
        end_frames == IF f2 < f1 THEN f1 ELSE f2
        AtOrAfter(f) == {k \in DOMAIN ti : k >= f}
        AtOrBefore(f) == {k \in DOMAIN ti : k <= f}
        start_anchor ==
            IF AtOrAfter(start_frames) # {} THEN ti[Least(AtOrAfter(start_frames))]
            ELSE IF AtOrBefore(start_frames) # {}
            THEN ti[Greatest(AtOrBefore(start_frames))]
            ELSE 0
        end_anchor ==
            IF AtOrBefore(end_frames) # {} THEN ti[Greatest(AtOrBefore(end_frames))]
            ELSE IF AtOrAfter(end_frames) # {} THEN ti[Least(AtOrAfter(end_frames))]
            ELSE n
        s == Clamp(start_anchor, n)
        e == Clamp(end_anchor, n)
    IN  IF e < s THEN <<e, s>> ELSE <<s, e>>

(* C10: the step that dispatches R in NORMAL stores the range C10 states  *)
(* (anchors by the smallest key at or after / the largest key at or       *)
(* before, with their fallbacks, frame counts swapped if reversed,        *)
(* offsets clamped and swapped), and 0 <= start_pos <= end_pos <=         *)
(* length() for the text as it is when R is dispatched.                   *)
C10_RangeResolution ==
    [][ (parser.state = "NORMAL" /\ ev'.cmd = CMD_R) =>
            LET r == StatedRange(parser.doc.time_index, length(parser.doc),
                                 parser.frame_buf)
            IN  /\ parser'.refresh_start_pos = r[1]
                /\ parser'.refresh_end_pos = r[2]
                /\ 0 <= parser'.refresh_start_pos
                /\ parser'.refresh_start_pos <= parser'.refresh_end_pos
                /\ parser'.refresh_end_pos <= length(parser.doc)
      ]_vars

(* R has been dispatched with the end timecode before the start timecode  *)
(* on a time index of two keys, one of them stale (past the end of the    *)
(* text), and has resolved to a non-empty range.                          *)
C10_Witness ==
    /\ ev.cmd = CMD_R /\ BufferRefresh(parser)
    /\ to_frames(parser.refresh_end_tc) < to_frames(parser.refresh_start_tc)
    /\ Cardinality(DOMAIN parser.doc.time_index) = 2
    /\ \E k \in DOMAIN parser.doc.time_index :
          parser.doc.time_index[k] > length(parser.doc)
    /\ parser.refresh_start_pos < parser.refresh_end_pos

(* The Document that text and the commands P, N, F, T, D and K act on. *)
Target(p) == IF BufferRefresh(p) THEN p.refresh_buffer[1] ELSE p.doc

(* C11: a step that dispatches T sets time_index[frame count of its       *)
(* payload] of the edit target to the target's cursor, keeps every other  *)
(* entry of it and leaves the index of the other Document alone; a step   *)
(* that dispatches no T (a text byte, any other command, an error) leaves *)
(* the main index and the index of the scratch as they are, and the       *)
(* scratch that R creates starts with an empty index.                     *)
C11_TimeIndexOnlyT ==
    [][ /\ ev'.cmd = CMD_T =>
              LET k == FrameCount(parser.frame_buf, 1)
                  old == Target(parser)
                  new == Target(parser')
              IN  /\ DOMAIN new.time_index = DOMAIN old.time_index \cup {k}
                  /\ new.time_index[k] = old.insertion
                  /\ \A j \in DOMAIN old.time_index \ {k} :
                        new.time_index[j] = old.time_index[j]
                  /\ BufferRefresh(parser) =>
                        parser'.doc.time_index = parser.doc.time_index
        /\ ev'.cmd # CMD_T =>
              /\ parser'.doc.time_index = parser.doc.time_index
              /\ (parser.refresh_buffer # <<>> /\ parser'.refresh_buffer # <<>>) =>
                    parser'.refresh_buffer[1].time_index
                        = parser.refresh_buffer[1].time_index
              /\ (parser.refresh_buffer = <<>> /\ parser'.refresh_buffer # <<>>) =>
                    DOMAIN parser'.refresh_buffer[1].time_index = {}
      ]_vars

(* A T has been dispatched at a cursor past the start of the text on an   *)
(* index that holds another entry, which keeps its earlier offset.        *)
C11_Witness ==
    /\ ev.cmd = CMD_T /\ ev.byte = ETX /\ parser.state = "NORMAL"
    /\ DOMAIN parser.doc.time_index = {0, 30}
    /\ parser.doc.insertion > 0
    /\ \E k \in {0, 30} :
          /\ parser.doc.time_index[k] = parser.doc.insertion
          /\ parser.doc.time_index[30 - k] < parser.doc.insertion

(* Byte b, fed to p, belongs to a frame whose command byte is not one of  *)
(* P, N, F, T, R, E, D, K: it is that command byte, or comes after it.    *)
InUnknownFrame(p, b) ==
    /\ p.in_cmd
    /\ \/ p.current_cmd = NONE /\ b \notin DOMAIN CMD_LEN
       \/ p.current_cmd # NONE /\ p.current_cmd \notin DOMAIN CMD_LEN

(* The frame state outside any frame. *)
OutsideFrame(p) ==
    /\ ~p.in_cmd /\ p.current_cmd = NONE /\ p.expected_len = NONE
    /\ p.frame_buf = <<>>

(* No byte of an unknown frame, and no STX that opens a frame, changes a  *)
(* Document or the refresh state, raises an error or dispatches.          *)
UnknownFrameSilent ==
    /\ (InUnknownFrame(parser, ev'.byte)
            \/ (~parser.in_cmd /\ ev'.byte = STX)) =>
          /\ Documents(parser') = Documents(parser)
          /\ Bookkeeping(parser') = Bookkeeping(parser)
          /\ ev'.err = "none"
          /\ ev'.cmd = NONE
    /\ (~parser.in_cmd /\ ev'.byte = STX) => parser'.in_cmd

(* C12 as stated: every byte of an unknown frame is silent, and the first *)
(* ETX after the STX leaves the parser outside any frame.                 *)
C12_UnknownSkipped ==
    [][ /\ UnknownFrameSilent
        /\ (InUnknownFrame(parser, ev'.byte) /\ ev'.byte = ETX) =>
              OutsideFrame(parser')
      ]_vars

(* C12 amended: every byte of an unknown frame is silent; an ETX that is  *)
(* the command byte is taken as the (unknown) command and keeps the frame *)
(* open, any other byte after the command byte that is not ETX is payload *)
(* and keeps the frame open, and the first ETX after the command byte     *)
(* leaves the parser outside any frame.                                   *)
C12_UnknownSkippedAfterCommandByte ==
    [][ /\ UnknownFrameSilent
        /\ (InUnknownFrame(parser, ev'.byte) /\ ev'.byte = ETX
                /\ parser.current_cmd # NONE) =>
              OutsideFrame(parser')
        /\ (InUnknownFrame(parser, ev'.byte)
                /\ (ev'.byte # ETX \/ parser.current_cmd = NONE)) =>
              /\ parser'.in_cmd
              /\ parser'.current_cmd
                    = IF parser.current_cmd = NONE THEN ev'.byte
                      ELSE parser.current_cmd
      ]_vars

(* An ETX has closed an unknown frame during a BUFFER refresh whose       *)
(* scratch and main Document hold text: the byte was ETX, nothing was     *)
(* dispatched, and no ETX was inserted as text.                           *)
C12_Witness ==
    /\ ev.byte = ETX /\ ev.cmd = NONE /\ ev.err = "none"
    /\ OutsideFrame(parser) /\ BufferRefresh(parser)
    /\ Len(parser.refresh_buffer[1].chars) > 0
    /\ Len(parser.doc.chars) > 0
    /\ \A j \in 1 .. Len(parser.refresh_buffer[1].chars) :
          parser.refresh_buffer[1].chars[j] # ETX
    /\ parser.refresh_buffer[1].insertion = Len(parser.refresh_buffer[1].chars)

(* C13: in the state a step that dispatches K leaves, in NORMAL or in     *)
(* REFRESH and in either mode, prevent_save of the main Document is true, *)
(* and so is prevent_save of the scratch Document if there is one.        *)
C13_PreventSaveImmediate ==
    [][ ev'.cmd = CMD_K =>
            /\ parser'.doc.prevent_save
            /\ BufferRefresh(parser') => parser'.refresh_buffer[1].prevent_save
            /\ parser'.state = parser.state
      ]_vars

(* K has been dispatched during a BUFFER refresh, the scratch holding     *)
(* text: both flags are set.                                              *)
C13_Witness ==
    /\ ev.cmd = CMD_K /\ BufferRefresh(parser)
    /\ Len(parser.refresh_buffer[1].chars) > 0
    /\ parser.doc.prevent_save /\ parser.refresh_buffer[1].prevent_save

(* C14: in STREAM mode the step that dispatches R in NORMAL and resolves  *)
(* it to (s, e) leaves the main text old[0:s] || old[e:] with cursor s    *)
(* and lower_bound s, for s = e too; the step that dispatches the E of a  *)
(* STREAM refresh leaves the text as it is with the cursor at length().   *)
C14_StreamBeginEnd ==
    [][ /\ (parser.refresh_mode = "STREAM" /\ parser.state = "NORMAL"
                /\ ev'.cmd = CMD_R) =>
              LET old == parser.doc.chars
                  s == parser'.refresh_start_pos
                  e == parser'.refresh_end_pos
              IN  /\ parser'.state = "REFRESH"
                  /\ parser'.doc.chars =
                        SubSeq(old, 1, s) \o SubSeq(old, e + 1, Len(old))
                  /\ parser'.doc.insertion = s
                  /\ parser'.refresh_lower_bound = s
        /\ (StreamRefresh(parser) /\ ev'.cmd = CMD_E) =>
              /\ parser'.state = "NORMAL"
              /\ parser'.doc.chars = parser.doc.chars
              /\ parser'.doc.insertion = Len(parser.doc.chars)
      ]_vars

(* R has begun a STREAM refresh whose range was a non-empty part of the   *)
(* text with text before it and after it: the cursor is at lower_bound,   *)
(* between the two.                                                       *)
C14_Witness ==
    /\ ev.cmd = CMD_R /\ ev.err = "none" /\ StreamRefresh(parser)
    /\ 0 < parser.refresh_start_pos
    /\ parser.refresh_start_pos < parser.refresh_end_pos
    /\ parser.doc.insertion = parser.refresh_lower_bound
    /\ parser.doc.insertion < Len(parser.doc.chars)

(* C15: the step that dispatches E in a BUFFER refresh leaves the main    *)
(* prevent_save equal to the scratch's, whatever the main flag was; the   *)
(* scratch R creates has the flag clear, and during the refresh the       *)
(* scratch's flag changes only in a step that dispatches K, which sets    *)
(* it: so it is true exactly if a K was dispatched between R and E.       *)
C15_PreventSaveAfterBufferRefresh ==
    [][ /\ (BufferRefresh(parser) /\ ev'.cmd = CMD_E) =>
              parser'.doc.prevent_save = parser.refresh_buffer[1].prevent_save
        /\ (parser.state = "NORMAL" /\ BufferRefresh(parser')) =>
              ~parser'.refresh_buffer[1].prevent_save
        /\ (BufferRefresh(parser) /\ BufferRefresh(parser')) =>
              /\ ev'.cmd = CMD_K => parser'.refresh_buffer[1].prevent_save
              /\ ev'.cmd # CMD_K =>
                    parser'.refresh_buffer[1].prevent_save
                        = parser.refresh_buffer[1].prevent_save
      ]_vars

(* E has ended a BUFFER refresh and the main flag is set: a K was         *)
(* dispatched between R and E.                                            *)
C15_Witness ==
    /\ ev.cmd = CMD_E /\ ev.ended # <<>> /\ parser.refresh_mode = "BUFFER"
    /\ parser.doc.prevent_save
    /\ Len(parser.doc.chars) > 0

(* p is inside a frame whose command byte is one of P, N, F, T, R, E, D,  *)
(* K.                                                                     *)
InRecognizedFrame(p) == p.in_cmd /\ p.current_cmd \in DOMAIN CMD_LEN

(* What the dispatch of cmd with payload wrote: the page, line, format or *)
(* index entry of the edit target, or the stored timecodes of R.          *)
WrotePayload(cmd, payload, p) ==
    /\ cmd = CMD_P => Target(p).current_page = payload[1] + 256 * payload[2]
    /\ cmd = CMD_N => Target(p).current_line = payload[1]
    /\ cmd = CMD_F => Target(p).current_format = payload[1]
    /\ cmd = CMD_T =>
          FrameCount(payload, 1) \in DOMAIN Target(p).time_index
    /\ cmd = CMD_R =>
          /\ p.refresh_start_tc = SubSeq(payload, 1, 4)
          /\ p.refresh_end_tc = SubSeq(payload, 5, 8)

(* In a recognized frame with payload length L: each of the first L bytes *)
(* after the command byte is appended to the payload whatever its value,  *)
(* dispatches nothing, raises nothing and keeps the frame open; the       *)
(* payload never exceeds L bytes; a command is dispatched only by an ETX  *)
(* that arrives when the payload holds L bytes, every such ETX dispatches *)
(* it, and the dispatch has used exactly those bytes.                     *)
PayloadAccumulated ==
    /\ (InRecognizedFrame(parser)
            /\ Len(parser.frame_buf) < CMD_LEN[parser.current_cmd]) =>
          /\ parser' = [parser EXCEPT !.frame_buf = Append(@, ev'.byte)]
          /\ ev'.cmd = NONE
          /\ ev'.err = "none"
    /\ InRecognizedFrame(parser') =>
          /\ parser'.expected_len = CMD_LEN[parser'.current_cmd]
          /\ Len(parser'.frame_buf) <= CMD_LEN[parser'.current_cmd]
    /\ ev'.cmd # NONE =>
          /\ ev'.byte = ETX
          /\ InRecognizedFrame(parser)
          /\ ev'.cmd = parser.current_cmd
          /\ Len(parser.frame_buf) = CMD_LEN[parser.current_cmd]
          /\ ev'.err = "none" => WrotePayload(ev'.cmd, parser.frame_buf, parser')
    /\ (InRecognizedFrame(parser) /\ ev'.byte = ETX
            /\ Len(parser.frame_buf) = CMD_LEN[parser.current_cmd]) =>
          ev'.cmd = parser.current_cmd

(* C16 as stated: payload bytes are accumulated whatever their value, and *)
(* the command is dispatched exactly once: the step that dispatches it    *)
(* closes the frame.                                                      *)
C16_FixedLengthPayload ==
    [][ /\ PayloadAccumulated
        /\ ev'.cmd # NONE => OutsideFrame(parser')
      ]_vars

(* C16 amended: payload bytes are accumulated whatever their value; a     *)
(* dispatch that raises no error closes the frame, so the command is      *)
(* dispatched once; a dispatch that raises (R during a refresh) changes   *)
(* nothing and leaves the frame open with its payload, so the next ETX    *)
(* dispatches the command again.                                          *)
C16_FixedLengthPayloadUnlessRaised ==
    [][ /\ PayloadAccumulated
        /\ (ev'.cmd # NONE /\ ev'.err = "none") => OutsideFrame(parser')
        /\ (ev'.cmd # NONE /\ ev'.err # "none") =>
              /\ ev'.cmd = CMD_R /\ ev'.err = "nested"
              /\ parser' = parser
      ]_vars

(* A P frame whose two payload bytes were 0x03 and 0x02 has been          *)
(* dispatched during a BUFFER refresh: the page is 0x0203 and the frame   *)
(* is closed.                                                             *)
C16_Witness ==
    /\ ev.cmd = CMD_P /\ ev.byte = ETX /\ OutsideFrame(parser)
    /\ BufferRefresh(parser)
    /\ parser.refresh_buffer[1].current_page = ETX + 256 * STX
    /\ Len(parser.doc.chars) > 0

(* C17: in every reachable state a scratch Document exists exactly if the *)
(* state is REFRESH and the mode BUFFER; in REFRESH start_pos and end_pos *)
(* are set; in NORMAL the stored timecodes, start_pos, end_pos and the    *)
(* scratch are cleared and lower_bound is 0.                              *)
C17_RefreshBookkeeping ==
    /\ parser.state \in {"NORMAL", "REFRESH"}
    /\ Len(parser.refresh_buffer) = (IF BufferRefresh(parser) THEN 1 ELSE 0)
    /\ parser.state = "REFRESH" =>
          /\ parser.refresh_start_pos # NONE
          /\ parser.refresh_end_pos # NONE
    /\ parser.state = "NORMAL" =>
          /\ parser.refresh_start_tc = <<>> /\ parser.refresh_end_tc = <<>>
          /\ parser.refresh_start_pos = NONE /\ parser.refresh_end_pos = NONE
          /\ parser.refresh_buffer = <<>>
          /\ parser.refresh_lower_bound = 0

(* E has ended a STREAM refresh whose lower bound was past the start of   *)
(* the text: the state is NORMAL and the bookkeeping is cleared.          *)
C17_Witness ==
    /\ ev.cmd = CMD_E /\ ev.ended # <<>> /\ parser.refresh_mode = "STREAM"
    /\ ev.ended[1] > 0
    /\ parser.state = "NORMAL" /\ parser.refresh_lower_bound = 0

(* p is inside an R frame that holds its 8 payload bytes while the state  *)
(* is REFRESH.                                                            *)
InNestedR(p) ==
    /\ p.in_cmd /\ p.current_cmd = CMD_R /\ Len(p.frame_buf) = 8
    /\ p.state = "REFRESH"

(* C19: a step that raises the nested-refresh error leaves the parser     *)
(* inside the R frame with its 8 payload bytes, in REFRESH; from there    *)
(* every byte raises an error (framing for a byte that is not ETX, nested *)
(* again for ETX) and leaves the whole parser as it is, so the refresh    *)
(* never ends and the main text never changes again.                      *)
C19_NestedRefreshPoisons ==
    [][ /\ ev'.err = "nested" => InNestedR(parser')
        /\ InNestedR(parser) =>
              /\ ev'.err = (IF ev'.byte = ETX THEN "nested" ELSE "framing")
              /\ parser' = parser
              /\ ev'.ended = <<>>
      ]_vars

(* The nested-refresh error has been raised in a refresh over a Document  *)
(* with text: the parser is inside the R frame, in REFRESH.               *)
C19_Witness ==
    /\ ev.err = "nested" /\ ev.byte = ETX /\ InNestedR(parser)
    /\ Len(parser.doc.chars) > 0
    /\ parser.frame_buf = <<0, 0, 0, 0, 0, 0, 0, 0>>

(* p is inside a recognized frame that holds its L payload bytes. *)
AtEtxPosition(p) ==
    InRecognizedFrame(p) /\ Len(p.frame_buf) = CMD_LEN[p.current_cmd]

(* C20: a step that raises the framing error leaves the parser as it was, *)
(* inside the frame with its command byte and L payload bytes; from there *)
(* every byte that is not ETX raises the framing error again and changes  *)
(* nothing, and an ETX, unless the command is an R during a refresh,      *)
(* dispatches the pending command with that payload without error and     *)
(* closes the frame.                                                      *)
C20_FramingErrorLeavesFrameOpen ==
    [][ /\ ev'.err = "framing" =>
              /\ AtEtxPosition(parser')
              /\ parser' = parser
        /\ (AtEtxPosition(parser) /\ ev'.byte # ETX) =>
              /\ ev'.err = "framing"
              /\ ev'.cmd = NONE
              /\ parser' = parser
        /\ (AtEtxPosition(parser) /\ ev'.byte = ETX /\ ~InNestedR(parser)) =>
              /\ ev'.err = "none"
              /\ ev'.cmd = parser.current_cmd
              /\ WrotePayload(parser.current_cmd, parser.frame_buf, parser')
              /\ OutsideFrame(parser')
      ]_vars

(* A framing error has been raised in a P frame during a BUFFER refresh:  *)
(* the frame is open with its two payload bytes and the page is not       *)
(* written yet.                                                           *)
C20_Witness ==
    /\ ev.err = "framing" /\ ev.byte # ETX
    /\ parser.in_cmd /\ parser.current_cmd = CMD_P
    /\ parser.frame_buf = <<ETX, STX>>
    /\ BufferRefresh(parser)
    /\ parser.refresh_buffer[1].current_page = NONE

(* C18: when the E of the one refresh of an error-free sequence has been  *)
(* dispatched, the BUFFER-mode parser and the STREAM-mode parser fed the  *)
(* same bytes are both in NORMAL and hold the same main text.             *)
C18_ModeEquivalence ==
    (fed.refreshes > 0 /\ parser.state = "NORMAL") =>
        /\ parser.refresh_mode = "BUFFER" /\ whole.p.refresh_mode = "STREAM"
        /\ whole.p.state = "NORMAL"
        /\ text(parser.doc) = text(whole.p.doc)

(* E has ended, in both modes, a refresh that replaced a non-empty part   *)
(* of the text, with text before and after it, by other text: the texts   *)
(* are those the refresh left and the two cursors differ.                 *)
C18_Witness ==
    /\ ev.cmd = CMD_E /\ ev.ended # <<>>
    /\ parser.refresh_mode = "BUFFER" /\ whole.p.refresh_mode = "STREAM"
    /\ 0 < ev.ended[1] /\ ev.ended[1] < ev.ended[2] /\ ev.ended[2] < ev.ended[3]
    /\ ev.ended[4] > 0
    /\ Len(whole.p.doc.chars) = ev.ended[3] - (ev.ended[2] - ev.ended[1]) + ev.ended[4]
    /\ parser.doc.insertion # whole.p.doc.insertion

====
